---- MODULE Spec2Model ----
(***************************************************************************)
(* Backprop (pixel_privacy/attacks/utils/backprop.py): the gradient engine *)
(* calculate_gradients, its guided-backprop hooks on the ReLU layers of a  *)
(* shared model, the finalizer __del__, and the wrapper get_input_gradient.*)
(*                                                                         *)
(* Tensors are spatially uniform: a rank-4 tensor (N, C, H, W) is a record *)
(* [shape, data] whose data is indexed [n][c]; every pixel of a channel    *)
(* holds the same number.  None is the empty sequence (a tensor's missing  *)
(* grad, an absent target) or 0 (an absent / unbound class index).         *)
(***************************************************************************)
EXTENDS Integers, Sequences, FiniteSets, TLC

\* ---- bounds of the model ----
\* number of nn.ReLU modules of the fixture model
NumRelu == 2
\* engine objects that can exist
MaxEngines == 2
\* tensor objects the caller owns
MaxTensors == 2
\* calculate_gradients calls in one behaviour
MaxCalls == 2
\* calls in one behaviour when every argument varies
MaxArgCalls == 1

Engines == 1..MaxEngines
Layers == 1..NumRelu
TensorIds == 1..MaxTensors

\* ---- the fixture model (an opaque nn.Module for the code) ----
\* forward order of the ReLU modules: a chain
Topology == [i \in 1..NumRelu |-> i]
NumEvals == Len(Topology)

\* first layer: one hidden unit, weight per input channel
W(c) == 2 - c
\* scaling between ReLU i and ReLU i+1
S(i) == 2
\* the head: score of class j is V[j] * a + B[j]; the class of negative weight
\* wins on weak activations, so the backward seed takes both signs
V == <<1, -1, 2>>
B == <<0, 7, 0>>
NumClasses == Len(V)

Relu(v) == IF v > 0 THEN v ELSE 0
Max2(a, b) == IF a >= b THEN a ELSE b

RECURSIVE Dot(_, _)
Dot(x, c) == IF c = 0 THEN 0 ELSE W(c) * x[c] + Dot(x, c - 1)

\* output of the i-th ReLU evaluation for the image x (one batch row)
RECURSIVE Act(_, _)
Act(i, x) == IF i = 1 THEN Relu(Dot(x, Len(x))) ELSE Relu(S(i - 1) * Act(i - 1, x))

\* model(input_): (1, num_classes) scores, or a rank-1 score of a binary classifier
ModelOutput(out, x) ==
    IF out = "binary"
    THEN [shape |-> <<1>>, data |-> <<V[1] * Act(NumEvals, x) + B[1]>>]
    ELSE [shape |-> <<1, NumClasses>>,
          data |-> [j \in 1..NumClasses |-> V[j] * Act(NumEvals, x) + B[j]]]

\* ---- inputs ----
InceptionSize == 299
Shapes == {<<1, 3, 224, 224>>, <<1, 3, InceptionSize, InceptionSize>>, <<1, 1, 224, 224>>}
Images(C) == {[c \in 1..C |-> c], [c \in 1..C |-> 4 - c]}

NewTensor(shape, img) ==
    [shape |-> shape, data |-> <<img>>, requires_grad |-> FALSE, is_leaf |-> TRUE,
     grad |-> <<>>, device |-> "cpu"]
InputTensors == UNION {{NewTensor(s, img) : img \in Images(s[2])} : s \in Shapes}

\* ---- state ----
VARIABLES
    cuda,            \* torch.cuda.is_available()
    model,           \* the nn.Module every engine shares
    forward_hooks,   \* module._forward_hooks of each ReLU, in registration order
    backward_hooks,  \* module._backward_hooks of each ReLU, in registration order
    engines,         \* the Backprop objects
    held,            \* the engines the caller holds a reference to
    tensors,         \* the caller's tensor objects
    pc,              \* position inside calculate_gradients / get_input_gradient
    frame,           \* locals of the running calculate_gradients
    outcome,         \* how the last calculate_gradients ended
    wrapped,         \* how the last get_input_gradient ended
    calls            \* calculate_gradients calls started

vars == <<cuda, model, forward_hooks, backward_hooks, engines, held, tensors, pc,
          frame, outcome, wrapped, calls>>

NoEngine ==
    [state |-> "free", handles |-> <<>>, has_relu_outputs |-> FALSE,
     relu_outputs |-> <<>>, gradients |-> <<>>]

NoFrame ==
    [self |-> 0, input_ |-> 0, orig |-> 0, local |-> NewTensor(<<>>, <<>>),
     target_class |-> 0, take_max |-> FALSE, guided |-> FALSE, use_gpu |-> FALSE,
     output |-> [shape |-> <<>>, data |-> <<>>], top_class |-> 0,
     has_target |-> FALSE, target |-> <<>>, target_device |-> "cpu",
     warned |-> FALSE, caller |-> "direct", pushes |-> [e \in Engines |-> 0],
     pops |-> [e \in Engines |-> 0], popped |-> <<>>]

NoGradients == [shape |-> <<>>, data |-> <<>>, alias |-> 0]
NoOutcome == [kind |-> "none", error |-> "", at |-> "", call |-> NoFrame,
              gradients |-> NoGradients]
NoWrapped == [kind |-> "none", first |-> [shape |-> <<>>, data |-> <<>>],
              second |-> NoGradients, clip_grad |-> [shape |-> <<>>, data |-> <<>>]]

\* the tensor the local name input_ is bound to
InputOf(f) == IF f.input_ = 0 THEN f.local ELSE tensors[f.input_]

\* the hooks on the model whose closure is bound to engine e
HooksOf(e, hooks) ==
    UNION {{<<l, k>> : k \in {j \in 1..Len(hooks[l]) : hooks[l][j].self = e}} : l \in Layers}
Attached(e) == Cardinality(HooksOf(e, forward_hooks)) + Cardinality(HooksOf(e, backward_hooks))

\* ---- Backprop.__init__ ----
NewEngine ==
    [state |-> "alive", handles |-> <<>>, has_relu_outputs |-> FALSE,
     relu_outputs |-> <<>>, gradients |-> <<>>]

Construct(e) ==
    /\ pc = "idle"
    /\ engines[e].state = "free"
    /\ engines' = [engines EXCEPT ![e] = NewEngine]
    /\ held' = held \cup {e}
    /\ model' = [model EXCEPT !.training = FALSE]
    /\ UNCHANGED <<cuda, forward_hooks, backward_hooks, tensors, pc, frame, outcome,
                   wrapped, calls>>

\* ---- Backprop._register_relu_hooks ----
\* the handles one registration appends to self.handles
NewHandles(eng) ==
    [k \in 1..(2 * NumRelu) |->
        [module |-> (k + 1) \div 2,
         kind |-> IF k % 2 = 1 THEN "forward" ELSE "backward",
         id |-> Len(eng.handles) + k]]

\* a registration guarded against a layer the engine already hooks
RegisterForwardOnce(e, eng, hooks) ==
    [l \in Layers |->
        IF \E k \in 1..Len(hooks[l]) : hooks[l][k].self = e THEN hooks[l]
        ELSE Append(hooks[l], [self |-> e, id |-> Len(eng.handles) + 2 * l - 1])]
RegisterForward(e, eng, hooks) ==
    [l \in Layers |-> Append(hooks[l], [self |-> e, id |-> Len(eng.handles) + 2 * l - 1])]
\* a registration that forgets the backward hook
RegisterBackwardNone(e, eng, hooks) == hooks
RegisterBackward(e, eng, hooks) ==
    [l \in Layers |-> Append(hooks[l], [self |-> e, id |-> Len(eng.handles) + 2 * l])]

\* ---- Backprop.__del__ : handle.remove() for every handle ----
RemoveHandles(e, eng, kind, hooks) ==
    [l \in Layers |->
        SelectSeq(hooks[l],
                  LAMBDA h : ~(h.self = e /\ \E i \in 1..Len(eng.handles) :
                                   /\ eng.handles[i].module = l
                                   /\ eng.handles[i].kind = kind
                                   /\ eng.handles[i].id = h.id))]

\* ---- calculate_gradients, lines 77-92 ----
\* a check that only asks for a square image
ShapeMismatchSquare(t) ==
    /\ model.family = "inception"
    /\ t.shape[3] # t.shape[4]
ShapeMismatch(t) ==
    /\ model.family = "inception"
    /\ SubSeq(t.shape, 2, Len(t.shape)) # <<3, InceptionSize, InceptionSize>>

Raise(f, error, at) ==
    [kind |-> "raised", error |-> error, at |-> at, call |-> f, gradients |-> NoGradients]

\* input_.to('cuda'): the same object when it is there already, a copy otherwise
\* (a leaf only when the source does not require grad)
ToCuda(t) ==
    [t EXCEPT !.device = "cuda", !.grad = <<>>, !.is_leaf = ~t.requires_grad]

Begin(engs, mdl, e, i, t, tc, tm, g, gpu, caller) ==
    LET moved == cuda /\ gpu
        copied == moved /\ t.device # "cuda"
        eng0 == engs[e]
        eng1 == IF g
                THEN [eng0 EXCEPT !.has_relu_outputs = TRUE, !.relu_outputs = <<>>,
                                  !.handles = eng0.handles \o NewHandles(eng0)]
                ELSE eng0
        f == [NoFrame EXCEPT !.self = e, !.orig = i,
                             !.input_ = IF copied \/ i = 0 THEN 0 ELSE i,
                             !.local = IF copied
                                       THEN [ToCuda(t) EXCEPT !.requires_grad = TRUE]
                                       ELSE IF i = 0
                                       THEN [t EXCEPT !.requires_grad = TRUE]
                                       ELSE NoFrame.local,
                             !.target_class = tc, !.take_max = tm, !.guided = g,
                             !.use_gpu = gpu, !.caller = caller]
    IN  /\ calls' = calls + 1
        /\ IF ShapeMismatch(t)
           THEN /\ outcome' = Raise([f EXCEPT !.input_ = i,
                                              !.local = IF i = 0 THEN t ELSE NoFrame.local],
                                    "ValueError", "check")
                /\ pc' = IF caller = "wrapper" THEN "unwind" ELSE "idle"
                /\ frame' = NoFrame
                /\ UNCHANGED <<forward_hooks, backward_hooks, tensors>>
                /\ model' = mdl
                /\ engines' = engs
           ELSE /\ engines' = [engs EXCEPT ![e] = [eng1 EXCEPT !.gradients = t.shape]]
                /\ forward_hooks' = IF g THEN RegisterForward(e, eng0, forward_hooks)
                                    ELSE forward_hooks
                /\ backward_hooks' = IF g THEN RegisterBackward(e, eng0, backward_hooks)
                                     ELSE backward_hooks
                /\ model' = [mdl EXCEPT !.device = IF moved THEN "cuda" ELSE @,
                                          !.param_grad = "zero"]
                /\ tensors' = IF copied \/ i = 0 THEN tensors
                              ELSE [tensors EXCEPT ![i].requires_grad = TRUE]
                /\ frame' = f
                /\ pc' = "forward"
                /\ UNCHANGED outcome

CalculateGradients(limit, E, T, TC, TM, G, GPU) ==
    \E e \in E, i \in T, tc \in TC, tm \in TM, g \in G, gpu \in GPU :
        /\ pc = "idle"
        /\ calls < limit
        /\ engines[e].state = "alive"
        /\ e \in held
        /\ Begin(engines, model, e, i, tensors[i], tc, tm, g, gpu, "direct")
        /\ UNCHANGED <<cuda, held, wrapped>>

\* ---- the forward pass, line 96: output = self.model(input_) ----
\* a hook that records nothing
PushNothing(stack, output) == stack
\* _record_output: self.relu_outputs.append(output)
Push(stack, output) == Append(stack, output)

\* _record_output of every forward hook of one ReLU evaluation, in registration order
RECURSIVE RecordOutputs(_, _, _, _)
RecordOutputs(hs, k, st, output) ==
    IF k > Len(hs) \/ st.err # "" THEN st
    ELSE LET e == hs[k].self
         IN  RecordOutputs(hs, k + 1,
                 IF ~st.eng[e].has_relu_outputs
                 THEN [st EXCEPT !.err = "AttributeError"]
                 ELSE [st EXCEPT !.eng[e].relu_outputs = Push(@, output),
                                 !.pushes[e] = @ + 1],
                 output)

\* ReLU evaluations i..n of forward pass number pass over the image x
RECURSIVE ForwardPass(_, _, _, _, _)
ForwardPass(i, n, x, pass, st) ==
    IF i > n \/ st.err # "" THEN st
    ELSE ForwardPass(i + 1, n, x, pass,
             RecordOutputs(forward_hooks[Topology[i]], 1, st,
                           [layer |-> Topology[i], pass |-> pass, value |-> Act(i, x)]))

Leave(f) == IF f.caller = "wrapper" THEN "unwind" ELSE "idle"

Forward(F) ==
    /\ pc = "forward"
    /\ \E fail \in F :
        LET t == InputOf(frame)
            mismatch == t.device # model.device
            n == IF mismatch THEN 0 ELSE IF fail < 0 THEN NumEvals ELSE fail
            st == ForwardPass(1, n, t.data[1], model.forward_calls + 1,
                              [eng |-> engines, err |-> "", pushes |-> NoFrame.pushes])
            error == IF mismatch \/ (st.err = "" /\ fail >= 0) THEN "RuntimeError"
                     ELSE st.err
            f == [frame EXCEPT !.pushes = st.pushes]
        IN  /\ model' = [model EXCEPT !.forward_calls = @ + 1]
            /\ engines' = st.eng
            /\ IF error # ""
               THEN /\ outcome' = Raise(f, error, "forward")
                    /\ pc' = Leave(f)
                    /\ frame' = NoFrame
               ELSE /\ frame' = [f EXCEPT !.output = ModelOutput(model.out, t.data[1])]
                    /\ pc' = "select"
                    /\ UNCHANGED outcome
    /\ UNCHANGED <<cuda, forward_hooks, backward_hooks, held, tensors, wrapped, calls>>

\* ---- target selection, lines 101-123 ----
\* output.topk(1, dim=1): an index of a largest score
TopK(data) == {j \in 1..Len(data) : \A k \in 1..Len(data) : data[j] >= data[k]}

\* a mask that marks the first class whatever the prediction
TargetMaskFirst(n, top_class) == [j \in 1..n |-> IF j = 1 THEN 1 ELSE 0]
\* target[0][top_class] = 1 on the zero mask
TargetMask(n, top_class) == [j \in 1..n |-> IF j = top_class THEN 1 ELSE 0]

\* a test that forgets that target_class may be None
MismatchNoneIncluded(top_class, target_class) == top_class # target_class
\* line 114: (target_class is not None) and (top_class != target_class)
Mismatch(top_class, target_class) == target_class # 0 /\ top_class # target_class

SelectTarget ==
    /\ pc = "select"
    /\ IF Len(frame.output.shape) = 1
       THEN frame' = [frame EXCEPT !.has_target = FALSE, !.target = <<>>]
       ELSE \E top_class \in TopK(frame.output.data) :
               frame' = [frame EXCEPT
                   !.top_class = top_class,
                   !.has_target = TRUE,
                   !.target = TargetMask(frame.output.shape[Len(frame.output.shape)],
                                         top_class),
                   !.target_device = IF cuda /\ frame.use_gpu THEN "cuda" ELSE "cpu",
                   !.warned = Mismatch(top_class, frame.target_class)]
    /\ pc' = "backward"
    /\ UNCHANGED <<cuda, model, forward_hooks, backward_hooks, engines, held, tensors,
                   outcome, wrapped, calls>>

\* ---- the backward pass, line 127: output.backward(gradient=target) ----
\* a hook that multiplies without clamping
ClipGradientsNoClamp(relu_output, grad_out) == grad_out * relu_output
\* _clip_gradients(module, grad_in, grad_out) -> the replacement for grad_in
ClipGradients(relu_output, grad_out) == Max2(grad_out, 0) * relu_output

\* a hook that takes the oldest entry
PopFirst(stack) == [item |-> Head(stack), rest |-> Tail(stack)]
\* self.relu_outputs.pop(): the last entry leaves the list
Pop(stack) == [item |-> stack[Len(stack)], rest |-> SubSeq(stack, 1, Len(stack) - 1)]

\* every backward hook of one ReLU evaluation, in registration order; each pops
\* its engine's stack and its result replaces grad_in
RECURSIVE ClipAll(_, _, _, _)
ClipAll(hs, k, st, grad_out) ==
    IF k > Len(hs) \/ st.err # "" THEN st
    ELSE LET e == hs[k].self
             stack == st.eng[e].relu_outputs
             relu_output == Pop(stack).item
         IN  ClipAll(hs, k + 1,
                 IF ~st.eng[e].has_relu_outputs THEN [st EXCEPT !.err = "AttributeError"]
                 ELSE IF stack = <<>> THEN [st EXCEPT !.err = "IndexError"]
                 ELSE [st EXCEPT
                         !.eng[e].relu_outputs = Pop(stack).rest,
                         !.pops[e] = @ + 1,
                         !.popped = Append(@, [self |-> e, by |-> Topology[st.at],
                                               got |-> relu_output,
                                               grad_out |-> grad_out,
                                               emitted |-> ClipGradients(
                                                   relu_output.value, grad_out)]),
                         !.g = ClipGradients(relu_output.value, grad_out)],
                 grad_out)

\* ReLU evaluations i down to n + 1 of the backward pass; st.g enters as the gradient
\* w.r.t. the output of evaluation i and leaves as the gradient w.r.t. its input
RECURSIVE BackwardPass(_, _, _, _)
BackwardPass(i, n, x, st) ==
    IF i <= n \/ st.err # "" THEN st
    ELSE LET grad_out == st.g
             plain == [st EXCEPT !.g = IF Act(i, x) > 0 THEN grad_out ELSE 0, !.at = i]
             done == ClipAll(backward_hooks[Topology[i]], 1, plain, grad_out)
         IN  BackwardPass(i - 1, n, x,
                 IF i > 1 /\ done.err = "" THEN [done EXCEPT !.g = S(i - 1) * @]
                 ELSE done)

RECURSIVE SumMask(_, _)
SumMask(target, j) == IF j = 0 THEN 0 ELSE target[j] * V[j] + SumMask(target, j - 1)

\* AccumulateGrad on a leaf: grad += new, in place
Accumulate(grad, new) ==
    IF grad = <<>> THEN <<new>>
    ELSE <<[c \in 1..Len(new) |-> grad[1][c] + new[c]]>>

Backward(F) ==
    /\ pc = "backward"
    /\ \E fail \in F :
        LET t == InputOf(frame)
            x == t.data[1]
            numel == Len(frame.output.data)
            refused == \/ ~frame.has_target /\ numel # 1
                       \/ frame.has_target /\ frame.target_device # model.device
            seed == IF frame.has_target THEN SumMask(frame.target, numel) ELSE V[1]
            n == IF refused THEN NumEvals ELSE IF fail < 0 THEN 0 ELSE NumEvals - fail
            st == BackwardPass(NumEvals, n, x,
                               [eng |-> engines, err |-> "", pops |-> NoFrame.pops, g |-> seed,
                                at |-> 0, popped |-> <<>>])
            error == IF refused \/ (st.err = "" /\ fail >= 0) THEN "RuntimeError"
                     ELSE st.err
            new == [c \in 1..Len(x) |-> W(c) * st.g]
            f == [frame EXCEPT !.pops = st.pops, !.popped = st.popped]
        IN  /\ engines' = st.eng
            /\ model' = [model EXCEPT !.param_grad = IF refused THEN @ ELSE "accumulated"]
            /\ IF error # ""
               THEN /\ outcome' = Raise(f, error, "backward")
                    /\ pc' = Leave(f)
                    /\ frame' = NoFrame
                    /\ UNCHANGED tensors
               ELSE /\ pc' = "return"
                    /\ UNCHANGED outcome
                    /\ IF ~t.is_leaf
                       THEN /\ tensors' = [tensors EXCEPT
                                             ![frame.orig].grad = Accumulate(@, new)]
                            /\ frame' = f
                       ELSE IF frame.input_ = 0
                       THEN /\ frame' = [f EXCEPT !.local.grad = Accumulate(@, new)]
                            /\ UNCHANGED tensors
                       ELSE /\ tensors' = [tensors EXCEPT
                                             ![frame.input_].grad = Accumulate(@, new)]
                            /\ frame' = f
    /\ UNCHANGED <<cuda, forward_hooks, backward_hooks, held, wrapped, calls>>

\* ---- lines 131-138 ----
MaxOf(set) == CHOOSE m \in set : \A y \in set : m >= y

\* gradients.max(dim=0, keepdim=True)[0]
MaxDim0(g) ==
    [shape |-> <<1>> \o Tail(g.shape),
     data |-> <<[c \in 1..Len(g.data[1]) |->
                    MaxOf({g.data[n][c] : n \in 1..Len(g.data)})]>>,
     alias |-> 0]

\* input_.grad.data.cpu(): shares the grad buffer's storage unless it is on the GPU
GradData(f, t) ==
    [shape |-> t.shape, data |-> t.grad,
     alias |-> IF t.device = "cpu" THEN f.input_ ELSE 0]

Gradients(f, t) == IF f.take_max THEN MaxDim0(GradData(f, t)) ELSE GradData(f, t)

Return ==
    /\ pc = "return"
    /\ LET t == InputOf(frame)
       IN  IF t.grad = <<>>
           THEN /\ outcome' = Raise(frame, "AttributeError", "return")
                /\ pc' = Leave(frame)
           ELSE IF frame.top_class = 0
           THEN /\ outcome' = Raise(frame, "UnboundLocalError", "return")
                /\ pc' = Leave(frame)
           ELSE /\ outcome' = [kind |-> "returned", error |-> "", at |-> "return",
                               call |-> frame, gradients |-> Gradients(frame, t)]
                /\ pc' = IF frame.caller = "wrapper" THEN "plot" ELSE "idle"
    /\ frame' = NoFrame
    /\ UNCHANGED <<cuda, model, forward_hooks, backward_hooks, engines, held, tensors,
                   wrapped, calls>>

\* the value a returned gradient tensor holds now
ValueOf(g, heap) == IF g.alias # 0 THEN heap[g.alias].grad ELSE g.data

\* ---- finalization ----
\* __del__ of engine e: every handle removed, the object gone
Del(e, st) ==
    [eng |-> [st.eng EXCEPT ![e] = NoEngine],
     fwd |-> RemoveHandles(e, st.eng[e], "forward", st.fwd),
     bwd |-> RemoveHandles(e, st.eng[e], "backward", st.bwd)]

\* The caller's reference to engine e goes away.  The hook closures on the model
\* hold self, so __del__ runs now only if no hook of e is attached.
Drop(e) ==
    LET st == [eng |-> engines, fwd |-> forward_hooks, bwd |-> backward_hooks]
        after == IF Attached(e) = 0 THEN Del(e, st) ELSE st
    IN  /\ held' = held \ {e}
        /\ engines' = after.eng
        /\ forward_hooks' = after.fwd
        /\ backward_hooks' = after.bwd

Release(e) ==
    /\ pc = "idle"
    /\ e \in held
    /\ Drop(e)
    /\ UNCHANGED <<cuda, model, tensors, pc, frame, outcome, wrapped, calls>>

RECURSIVE DelAll(_, _)
DelAll(e, st) ==
    IF e = 0 THEN st
    ELSE DelAll(e - 1, IF st.eng[e].state = "alive" THEN Del(e, st) ELSE st)

\* The caller lets go of the model and of every engine: the cycle collector
\* finalizes the engines that the model's hooks kept alive.
Collect ==
    /\ pc = "idle"
    /\ LET after == DelAll(MaxEngines, [eng |-> engines, fwd |-> forward_hooks,
                                        bwd |-> backward_hooks])
       IN  /\ engines' = after.eng
           /\ forward_hooks' = after.fwd
           /\ backward_hooks' = after.bwd
    /\ held' = {}
    /\ pc' = "exit"
    /\ UNCHANGED <<cuda, model, tensors, frame, outcome, wrapped, calls>>

\* ---- get_input_gradient ----
\* flashtorch.utils.format_for_plotting: drop the batch dimension, then drop a
\* single channel or move the channels last
format_for_plotting(g) ==
    LET formatted == IF Len(g.shape) = 4 /\ g.shape[1] = 1 THEN Tail(g.shape) ELSE g.shape
    IN  IF formatted[1] = 1
        THEN [shape |-> Tail(formatted), data |-> g.data[1]]
        ELSE [shape |-> <<formatted[2], formatted[3], formatted[1]>>, data |-> g.data[1]]

RECURSIVE Root(_, _, _)
Root(n, lo, hi) ==
    IF lo >= hi THEN lo
    ELSE LET mid == (lo + hi + 1) \div 2
         IN  IF mid * mid <= n THEN Root(n, mid, hi) ELSE Root(n, lo, mid - 1)

RECURSIVE SumSq(_, _)
SumSq(d, c) == IF c = 0 THEN 0 ELSE d[c] * d[c] + SumSq(d, c - 1)
RECURSIVE Sum(_, _)
Sum(x, c) == IF c = 0 THEN 0 ELSE x[c] + Sum(x, c - 1)

\* flashtorch.utils.standardize_and_clip in thousandths:
\* ((t - mean) / std * 0.1 + 0.5).clamp(0, 1); a zero std leaves 0.5 everywhere.
\* Over H*W equal pixels per channel the n - 1 of the sample std is taken as n.
standardize_and_clip(t) ==
    LET C == Len(t.data)
        d == [c \in 1..C |-> C * t.data[c] - Sum(t.data, C)]
        dev == Root(SumSq(d, C), 0, 46340)
        scaled(c) == IF dev = 0 THEN 0
                     ELSE (IF d[c] < 0 THEN -1 ELSE 1)
                          * (((IF d[c] < 0 THEN -d[c] ELSE d[c]) * Root(10000 * C, 0, 1000))
                             \div dev)
        clamp(v) == IF v < 0 THEN 0 ELSE IF v > 1000 THEN 1000 ELSE v
    IN  [shape |-> t.shape, data |-> [c \in 1..C |-> clamp(500 + scaled(c))]]

\* load_img(fname) of the file the caller's tensor i was read from
LoadImg(i) == NewTensor(tensors[i].shape, tensors[i].data[1])

\* lines 173-175: load the image, build a fresh engine, call it
LowestFree == CHOOSE e \in Engines :
                 /\ engines[e].state = "free"
                 /\ \A o \in Engines : engines[o].state = "free" => e <= o

GetInputGradient(limit, IMG, G, TM, GPU) ==
    \E img \in IMG, g \in G, tm \in TM, gpu \in GPU :
        /\ pc = "idle"
        /\ calls < limit
        /\ \E e \in Engines : engines[e].state = "free"
        /\ LET e == LowestFree
           IN  /\ Begin([engines EXCEPT ![e] = NewEngine],
                        [model EXCEPT !.training = FALSE], e, 0, img, 0, tm, g, gpu,
                        "wrapper")
               /\ held' = held \cup {e}
        /\ wrapped' = NoWrapped
        /\ UNCHANGED cuda

\* lines 177-205: both panels are drawn from clip_grad; the pair returned is
\* (output, x); the local name backprop goes away
Plot ==
    /\ pc = "plot"
    /\ LET x == outcome.gradients
           output == format_for_plotting(x)
           clip_grad == standardize_and_clip(output)
       IN  wrapped' = [kind |-> "returned", first |-> output, second |-> x,
                       clip_grad |-> clip_grad]
    /\ Drop(outcome.call.self)
    /\ pc' = "idle"
    /\ UNCHANGED <<cuda, model, tensors, frame, outcome, calls>>

\* an exception of calculate_gradients leaves get_input_gradient
Unwind ==
    /\ pc = "unwind"
    /\ wrapped' = [NoWrapped EXCEPT !.kind = "raised"]
    /\ Drop(outcome.call.self)
    /\ pc' = "idle"
    /\ UNCHANGED <<cuda, model, tensors, frame, outcome, calls>>

ConstructNext ==
    /\ \E e \in Engines : engines[e].state = "free"
    /\ Construct(LowestFree)

\* ---- the specifications ----
NewModel(family, out) ==
    [family |-> family, out |-> out, device |-> "cpu", training |-> TRUE,
     param_grad |-> "zero", forward_calls |-> 0]

InitWith(CUDA, FAMILY, OUT, INPUTS) ==
    /\ cuda \in CUDA
    /\ model \in {NewModel(f, o) : f \in FAMILY, o \in OUT}
    /\ forward_hooks = [l \in Layers |-> <<>>]
    /\ backward_hooks = [l \in Layers |-> <<>>]
    /\ engines = [e \in Engines |-> NoEngine]
    /\ held = {}
    /\ \E t \in INPUTS : tensors = [i \in TensorIds |-> t]
    /\ pc = "idle"
    /\ frame = NoFrame
    /\ outcome = NoOutcome
    /\ wrapped = NoWrapped
    /\ calls = 0

\* where a pass may be made to fail: after that many ReLU evaluations (-1: nowhere)
FailPoints == {-1} \cup (0..NumEvals)
NoFail == {-1}

PlainImage == NewTensor(<<1, 3, 224, 224>>, [c \in 1..3 |-> 4 - c])

\* engine life cycle: guided and plain calls on shared engines, failing passes
Init == InitWith({FALSE}, {"other"}, {"multi"}, {PlainImage})

Next ==
    \/ ConstructNext
    \/ CalculateGradients(MaxCalls, Engines, {1}, {0}, {FALSE}, BOOLEAN, {FALSE})
    \/ Forward(FailPoints)
    \/ SelectTarget
    \/ Backward(FailPoints)
    \/ Return
    \/ \E e \in Engines : Release(e)
    \/ Collect
    \/ GetInputGradient(MaxCalls, {LoadImg(1)}, BOOLEAN, {FALSE}, {FALSE})
    \/ Plot
    \/ Unwind

Spec == Init /\ [][Next]_vars

\* one engine's calls over every model family, output kind, input and argument;
\* the caller keeps its engine
InitCall == InitWith(BOOLEAN, {"inception", "other"}, {"multi", "binary"}, InputTensors)

NextCall ==
    \/ ConstructNext
    \/ CalculateGradients(MaxArgCalls, {1}, {1}, 0..NumClasses, BOOLEAN, BOOLEAN, BOOLEAN)
    \/ Forward(NoFail)
    \/ SelectTarget
    \/ Backward(NoFail)
    \/ Return
    \/ GetInputGradient(MaxArgCalls, {LoadImg(1)}, BOOLEAN, BOOLEAN, BOOLEAN)
    \/ Plot
    \/ Unwind

SpecCall == InitCall /\ [][NextCall]_vars

\* repeated plain CPU calls on the caller's tensor objects
InitRepeat == InitWith({FALSE}, {"other"}, {"multi"}, InputTensors)

NextRepeat ==
    \/ ConstructNext
    \/ CalculateGradients(MaxCalls, Engines, TensorIds, {0}, BOOLEAN, {FALSE}, {FALSE})
    \/ Forward(NoFail)
    \/ SelectTarget
    \/ Backward(NoFail)
    \/ Return
    \/ \E e \in Engines : Release(e)
    \/ Collect
    \/ GetInputGradient(MaxCalls, {LoadImg(1)}, {FALSE}, BOOLEAN, {FALSE})
    \/ Plot

SpecRepeat == InitRepeat /\ [][NextRepeat]_vars

\* calls with and without use_gpu on a model and tensors the caller may have put
\* on the GPU beforehand
Devices(available) == IF available THEN {"cpu", "cuda"} ELSE {"cpu"}

InitDevice ==
    /\ cuda \in BOOLEAN
    /\ \E d \in Devices(cuda) : model = [NewModel("other", "multi") EXCEPT !.device = d]
    /\ forward_hooks = [l \in Layers |-> <<>>]
    /\ backward_hooks = [l \in Layers |-> <<>>]
    /\ engines = [e \in Engines |-> NoEngine]
    /\ held = {}
    /\ \E d \in Devices(cuda) :
          tensors = [i \in TensorIds |-> [PlainImage EXCEPT !.device = d]]
    /\ pc = "idle"
    /\ frame = NoFrame
    /\ outcome = NoOutcome
    /\ wrapped = NoWrapped
    /\ calls = 0

NextDevice ==
    \/ ConstructNext
    \/ CalculateGradients(MaxCalls, Engines, {1}, {0}, {FALSE}, {FALSE}, BOOLEAN)
    \/ Forward(NoFail)
    \/ SelectTarget
    \/ Backward(NoFail)
    \/ Return
    \/ GetInputGradient(MaxCalls, {LoadImg(1)}, {FALSE}, {FALSE}, BOOLEAN)
    \/ Plot
    \/ Unwind

SpecDevice == InitDevice /\ [][NextDevice]_vars

\* ---- the claims ----
AttachedTo(e, fwd, bwd) == Cardinality(HooksOf(e, fwd)) + Cardinality(HooksOf(e, bwd))

\* C1: over repeated failed guided calls on one engine the interceptors attached to
\* the model do not grow: when a guided call raises during its forward or backward
\* pass and the engine's previous call had failed the same way, no more interceptors
\* of the engine are attached than after that previous failure (the failing call
\* registered 2 * NumRelu of them before its pass began).
C1_FailedCallsDoNotGrow ==
    [][(/\ pc \in {"forward", "backward"}
        /\ frame.guided
        /\ outcome.kind = "raised"
        /\ outcome.at \in {"forward", "backward"}
        /\ outcome.call.guided
        /\ outcome.call.self = frame.self
        /\ outcome'.kind = "raised"
        /\ pc' \in {"idle", "unwind"})
       => AttachedTo(frame.self, forward_hooks', backward_hooks')
              <= Attached(frame.self) - 2 * NumRelu]_vars

\* C2: at the forward pass of every guided call, every ReLU layer carries exactly
\* one forward-capture and one backward-clip interceptor of the calling engine.
C2_OnePairPerLayer ==
    (pc = "forward" /\ frame.guided)
        => \A l \in Layers :
              /\ Cardinality({k \in 1..Len(forward_hooks[l]) :
                               forward_hooks[l][k].self = frame.self}) = 1
              /\ Cardinality({k \in 1..Len(backward_hooks[l]) :
                               backward_hooks[l][k].self = frame.self}) = 1

\* the last call was the first guided call of its engine and it returned
FirstGuidedReturned ==
    /\ pc \in {"idle", "plot"}
    /\ outcome.kind = "returned"
    /\ outcome.call.guided
    /\ engines[outcome.call.self].state = "alive"
    /\ Len(engines[outcome.call.self].handles) = 2 * NumRelu

\* C3: after one complete guided call on a fresh engine the Relu Output Stack is
\* empty, and the pushes and the pops on it both equal the number of ReLU
\* evaluations of the model.
C3_StackBalanced ==
    FirstGuidedReturned
        => /\ engines[outcome.call.self].relu_outputs = <<>>
           /\ outcome.call.pushes[outcome.call.self] = NumEvals
           /\ outcome.call.pops[outcome.call.self] = NumEvals

C3_Witness ==
    /\ FirstGuidedReturned
    /\ outcome.call.pushes[outcome.call.self] > 0
    /\ outcome.call.pops[outcome.call.self] > 0

\* C4: with a rank-1 (binary classifier) output the call builds no Target Mask and
\* completes by returning, its predicted class being None.
C4_BinaryReturnsNone ==
    (pc \in {"idle", "plot", "unwind"} /\ Len(outcome.call.output.shape) = 1
        /\ outcome.at = "return")
        => /\ outcome.kind = "returned"
           /\ ~outcome.call.has_target
           /\ outcome.call.top_class = 0

\* the backward seed of a multi-class call has been built
MaskBuilt == pc \in {"backward", "return"} /\ Len(frame.output.shape) = 2

\* C5: for a (1, num_classes) output the Target Mask is 1 at one index, a top-1
\* index of the output, and 0 elsewhere, whatever target_class the caller gave.
C5_OneHotAtTop ==
    MaskBuilt
        => /\ Len(frame.target) = NumClasses
           /\ \E top \in 1..NumClasses :
                /\ \A k \in 1..NumClasses : frame.output.data[top] >= frame.output.data[k]
                /\ \A k \in 1..NumClasses : frame.target[k] = IF k = top THEN 1 ELSE 0

C5_Witness ==
    /\ MaskBuilt
    /\ frame.target_class # 0
    /\ frame.target[frame.target_class] = 0
    /\ \E k \in 1..NumClasses : frame.target[k] = 1

\* C6: a warning is emitted exactly when the caller gave a target_class that is not
\* the top-1 index; selecting the target never raises; and a call that returns
\* returns a top-1 index of its output as the predicted class.
C6_WarnsAndReturnsTop ==
    /\ [](MaskBuilt => (frame.warned <=>
              (frame.target_class # 0 /\ frame.target_class # frame.top_class)))
    /\ [][pc = "select" => (pc' = "backward" /\ outcome' = outcome)]_vars
    /\ []((outcome.kind = "returned") =>
              /\ outcome.call.top_class \in 1..NumClasses
              /\ \A k \in 1..NumClasses :
                    outcome.call.output.data[outcome.call.top_class]
                        >= outcome.call.output.data[k]
              /\ (outcome.call.warned <=>
                    (outcome.call.target_class # 0
                        /\ outcome.call.target_class # outcome.call.top_class)))

C6_Witness ==
    /\ outcome.kind = "returned"
    /\ outcome.call.warned
    /\ outcome.call.target_class # 0
    /\ outcome.call.top_class # outcome.call.target_class

\* the shape of the tensor the last call was given
GivenShape == IF outcome.call.orig = 0 THEN outcome.call.local.shape
              ELSE tensors[outcome.call.orig].shape

\* C7: for a (1, C, H, W) input the returned gradient has the batch dimension
\* removed: (1, H, W) holding the per-pixel maximum over the channels with take_max,
\* (C, H, W) without.
C7_BatchRemoved ==
    (outcome.kind = "returned" /\ pc \in {"idle", "plot"})
        => LET g == outcome.gradients
               C == GivenShape[2]
               H == GivenShape[3]
               Wd == GivenShape[4]
           IN  IF outcome.call.take_max
               THEN /\ g.shape = <<1, H, Wd>>
                    /\ \A c \in 1..C : g.data[1][1] >= InputOf(outcome.call).grad[1][c]
               ELSE g.shape = <<C, H, Wd>>

\* a call begins in this step
Begins == pc = "idle" /\ calls' = calls + 1
\* the tensor and the frame it begins with
Begun == IF pc' = "forward" THEN frame' ELSE outcome'.call
BegunShape == IF Begun.orig = 0 THEN Begun.local.shape ELSE tensors[Begun.orig].shape
BadInceptionInput ==
    /\ model.family = "inception"
    /\ <<BegunShape[3], BegunShape[4]>> # <<InceptionSize, InceptionSize>>

\* C8: an Inception model with an input that is not 299x299 makes the call raise the
\* shape error before anything is computed: no forward evaluation, no interceptor
\* registered (guided or not), the model where it was, the engine as it was.
C8_ShapeErrorFirst ==
    [][(Begins /\ BadInceptionInput)
        => /\ outcome'.kind = "raised"
           /\ outcome'.error = "ValueError"
           /\ pc' \in {"idle", "unwind"}
           /\ model'.forward_calls = model.forward_calls
           /\ model'.device = model.device
           /\ model'.param_grad = model.param_grad
           /\ forward_hooks' = forward_hooks
           /\ backward_hooks' = backward_hooks
           /\ tensors' = tensors
           /\ engines'[Begun.self] = IF Begun.caller = "wrapper" THEN NewEngine
                                     ELSE engines[Begun.self]]_vars

C8_Witness ==
    /\ outcome.kind = "raised"
    /\ outcome.error = "ValueError"
    /\ outcome.call.guided
    /\ outcome.call.use_gpu
    /\ cuda
    /\ model.forward_calls = 0
    /\ model.device = "cpu"

\* C9: get_input_gradient returns the clipped map drawn in the 'Gradient' panel,
\* its values between 0 and 1, and the raw gradient calculate_gradients returned.
C9_ReturnsClippedAndRaw ==
    (wrapped.kind = "returned")
        => /\ wrapped.first.shape = wrapped.clip_grad.shape
           /\ \A c \in 1..Len(wrapped.first.data) :
                /\ 1000 * wrapped.first.data[c] = wrapped.clip_grad.data[c]
                /\ 0 <= wrapped.first.data[c]
                /\ wrapped.first.data[c] <= 1
           /\ wrapped.second = outcome.gradients

\* two plain CPU calls in a row on one tensor object, with the same take_max and
\* the same predicted class: the second is about to return
SecondOfTwo ==
    /\ pc = "return"
    /\ outcome.kind = "returned"
    /\ outcome'.kind = "returned"
    /\ outcome.call.orig # 0
    /\ outcome.call.orig = frame.orig
    /\ outcome.call.take_max = frame.take_max
    /\ outcome.call.top_class = frame.top_class
    /\ ~outcome.call.guided /\ ~frame.guided
    /\ ~outcome.call.use_gpu /\ ~frame.use_gpu

\* C10: two such calls return the same gradient, and the tensor a call returned
\* keeps the value it was returned with.
C10_SinglePass ==
    /\ [][SecondOfTwo => outcome'.gradients.data = outcome.gradients.data]_vars
    /\ []((outcome.kind = "returned")
            => ValueOf(outcome.gradients, tensors) = outcome.gradients.data)

\* the backward-clip firings recorded by the call that is running or has ended
Firings(f) == {f.popped[k] : k \in 1..Len(f.popped)}
FiringsOf(e, f) == {k \in 1..Len(f.popped) : f.popped[k].self = e}
\* the record the backward pass of this step leaves
Fired == IF pc' = "return" THEN frame' ELSE outcome'.call

\* C11: every firing of the backward-clip interceptor takes one activation off its
\* engine's Relu Output Stack and emits max(upstream gradient, 0) times the popped
\* activation: 0 where the upstream gradient is negative or the activation is 0,
\* and never a negative value.
C11_ClipEmitsClampedProduct ==
    /\ [](\A r \in Firings(frame) \cup Firings(outcome.call) :
            /\ r.emitted = (IF r.grad_out > 0 THEN r.grad_out ELSE 0) * r.got.value
            /\ (r.grad_out < 0 \/ r.got.value = 0) => r.emitted = 0
            /\ r.emitted >= 0)
    /\ [][pc = "backward"
            => \A e \in Engines :
                  Len(engines'[e].relu_outputs)
                      = Len(engines[e].relu_outputs) - Cardinality(FiringsOf(e, Fired))]_vars

C11_Witness ==
    /\ outcome.kind = "returned"
    /\ outcome.call.guided
    /\ \E r \in Firings(outcome.call) :
          r.grad_out < 0 /\ r.got.value > 0 /\ r.emitted = 0
    /\ \E r \in Firings(outcome.call) : r.got.value > 0 /\ r.self = outcome.call.self

\* an earlier call of the same engine ran its forward pass and raised before any
\* backward-clip fired
FailedBetweenPasses(e) ==
    /\ outcome.kind = "raised"
    /\ outcome.call.self = e
    /\ outcome.call.guided
    /\ outcome.call.pushes[e] = NumEvals
    /\ outcome.call.pops[e] = 0

\* C12: in a guided call every backward-clip firing pops the activation that the
\* forward-capture of the same layer pushed during the forward pass of the same
\* call, on every engine and after any earlier calls, failed ones included.
C12_PopsOwnLayerOfSameCall ==
    [][(pc = "backward" /\ frame.guided)
        => \A r \in Firings(Fired) :
              /\ r.got.layer = r.by
              /\ r.got.pass = model.forward_calls]_vars

C12_Witness ==
    /\ pc = "return"
    /\ frame.guided
    /\ FailedBetweenPasses(frame.self)
    /\ Cardinality(FiringsOf(frame.self, frame)) = 2 * NumEvals
    /\ engines[frame.self].relu_outputs = <<>>

\* the interceptors of engine e on layer l
CountOf(e, l, hooks) == Cardinality({k \in 1..Len(hooks[l]) : hooks[l][k].self = e})
\* this step begins a guided call of engine e that gets past the shape check
BeginsGuided(e) == pc = "idle" /\ pc' = "forward" /\ frame'.self = e /\ frame'.guided

\* C13: while an engine is not torn down, each guided call adds 2 * NumRelu handles
\* to it and one forward-capture and one backward-clip interceptor to every ReLU
\* layer, and no other step, the return of the call included, takes any away: after
\* k guided calls the engine holds 2 * k * NumRelu handles and every layer carries k
\* interceptors of each kind.
C13_HooksStayUntilTeardown ==
    /\ [][\A e \in Engines :
            engines'[e].state = "alive"
                => LET k == IF BeginsGuided(e) THEN 1 ELSE 0
                   IN  /\ Len(engines'[e].handles)
                             = Len(engines[e].handles) + 2 * NumRelu * k
                       /\ \A l \in Layers :
                            /\ CountOf(e, l, forward_hooks')
                                  = CountOf(e, l, forward_hooks) + k
                            /\ CountOf(e, l, backward_hooks')
                                  = CountOf(e, l, backward_hooks) + k]_vars
    /\ [](\A e \in Engines, l \in Layers :
            /\ 2 * NumRelu * CountOf(e, l, forward_hooks) = Len(engines[e].handles)
            /\ 2 * NumRelu * CountOf(e, l, backward_hooks) = Len(engines[e].handles))

C13_Witness ==
    /\ pc = "idle"
    /\ outcome.kind = "returned"
    /\ outcome.call.guided
    /\ Len(engines[outcome.call.self].handles) = 2 * 2 * NumRelu
    /\ \A l \in Layers :
          /\ CountOf(outcome.call.self, l, forward_hooks) = 2
          /\ CountOf(outcome.call.self, l, backward_hooks) = 2

\* C14: asking for the GPU when there is none is not an error, the call completing
\* with the model, the input and the Target Mask where they were; and in every
\* call the Target Mask is on the device of the model output.
C14_MaskOnOutputDevice ==
    /\ ~cuda => /\ outcome.kind # "raised"
                /\ model.device = "cpu"
                /\ frame.local.device = "cpu"
                /\ frame.target_device = "cpu"
                /\ \A i \in TensorIds : tensors[i].device = "cpu"
    /\ MaskBuilt => frame.target_device = InputOf(frame).device

\* no forward-capture pushed and no backward-clip popped during the call of frame f
NoInterceptorActed(f) ==
    /\ \A e \in Engines : f.pushes[e] = 0 /\ f.pops[e] = 0
    /\ Firings(f) = {}

\* C15: a call with guided=False is plain backpropagation whatever calls came
\* before: it leaves the handle list of its engine as it was, and during its passes
\* nothing is pushed onto or popped from a Relu Output Stack, so no backward-clip
\* acts on its gradient.
C15_PlainCallUntouched ==
    /\ [][(pc = "idle" /\ pc' = "forward" /\ ~frame'.guided)
            => engines'[frame'.self].handles = engines[frame'.self].handles]_vars
    /\ [](~frame.guided => NoInterceptorActed(frame))
    /\ [](~outcome.call.guided => NoInterceptorActed(outcome.call))

\* get_input_gradient with guided=True returns in this step
GuidedWrapperReturns == pc = "plot" /\ outcome.call.guided /\ pc' = "idle"

\* C16: when a guided get_input_gradient call returns, its engine is unreferenced
\* and torn down, so the model carries none of its interceptors when the next call
\* starts.
C16_WrapperEngineTornDown ==
    [][GuidedWrapperReturns
        => /\ engines'[outcome.call.self].state = "free"
           /\ \A l \in Layers :
                /\ CountOf(outcome.call.self, l, forward_hooks') = 0
                /\ CountOf(outcome.call.self, l, backward_hooks') = 0]_vars

\* a hook raised because its engine's stack was empty or missing
HookRaised(o) ==
    /\ o.kind = "raised"
    /\ o.at \in {"forward", "backward"}
    /\ o.error \in {"IndexError", "AttributeError"}

\* C17: over guided and plain calls, returning or raising, of engines that share
\* the model, no interceptor ever fires on an empty or missing Relu Output Stack:
\* no pass raises from a hook, and in every backward pass the pops on each engine's
\* stack are at most the pushes the forward pass of the same call made on it.
C17_NoPopOnEmptyStack ==
    /\ [](~HookRaised(outcome))
    /\ [][pc = "backward"
            => \A e \in Engines :
                  /\ Fired.pops[e] <= frame.pushes[e]
                  /\ Fired.pops[e] = Cardinality(FiringsOf(e, Fired))]_vars

C17_Witness ==
    /\ outcome.kind = "returned"
    /\ ~outcome.call.guided
    /\ \E e \in Engines \ {outcome.call.self} :
          /\ outcome.call.pops[e] = NumEvals
          /\ outcome.call.pushes[e] = NumEvals
          /\ Len(engines[e].relu_outputs) > 0

====
